---------------------------- MODULE Spec2Model ----------------------------
(***************************************************************************)
(* A model of pycensus: the batcher and the batched download of            *)
(* dataset.py, the metadata filter of utils.py, the searches built on it,  *)
(* Geography.filter_to_params and search_datasets.                         *)
(*                                                                         *)
(* A Python str is a sequence of one-character strings, so that joining,   *)
(* formatting, regex search, endswith and substring tests are computed on  *)
(* characters.  Attribute names, exception names and the positions of a    *)
(* call are TLA+ strings.                                                  *)
(*                                                                         *)
(* Every entry point has its own specification (SpecBatcher, SpecDownload, *)
(* ...); the variables an entry point does not use keep their idle value.  *)
(***************************************************************************)
EXTENDS Integers, Sequences, FiniteSets

VARIABLES
    pc,               \* position of the running call
    result,           \* what the call returned or raised: [tag, ...]
    iterable,         \* batcher: the input
    batch_size,       \* batcher: batch_size
    it,               \* batcher: the iterator `it` (what is left of the input)
    yielded,          \* batcher: the chunks yielded so far
    var_names,        \* _download: var_names
    var_batch_size,   \* _download: var_batch_size
    geo_complexity,   \* _download: geo_complexity
    geo_params,       \* _download: geo_params
    i,                \* _download: the enumerate counter
    batch_outputs,    \* _download: batch_outputs
    requests,         \* the HTTP requests issued so far: [params, status]
    responses,        \* the tables the successful requests returned
    api_rows,         \* rows (header included) of every table the API returns
    model,            \* check_filters: the record filtered
    regex_filters,    \* the regex_filters argument: None or Some(list of <<field, criterion>>)
    _and,             \* check_filters: _and
    idx,              \* force_regex_filters.wrapper: position of the for loop in rfs
    criterion,        \* force_regex_filters.wrapper: the local variable `criterion`
    enforced_filters, \* force_regex_filters.wrapper: enforced_filters
    geography,        \* filter_to_params: self
    geo_filters,      \* filter_to_params: geo_filters, None or Some(list of <<geo_loc, value>>)
    op,               \* the Dataset / Group method called
    document,         \* the records of the metadata document the method fetches
    and_or,           \* search_groups / search_variables: and_or
    download_args,    \* Dataset.download: geo_level, geography, variable_names, variables
    catalog,          \* search_datasets: the "dataset" entries of the year's catalog
    path,             \* search_datasets / initialize: path, None or Some(str)
    include_sub_datasets  \* search_datasets: include_sub_datasets

batcherVars  == <<iterable, batch_size, yielded>>
downloadVars == <<var_names, var_batch_size, geo_complexity, geo_params, i,
                  batch_outputs, requests, responses, api_rows>>

filterVars  == <<model, regex_filters, _and>>
wrapperVars == <<idx, criterion, enforced_filters>>
geoVars     == <<geography, geo_filters>>
searchVars  == <<op, document, and_or, download_args>>
datasetVars == <<catalog, path, include_sub_datasets>>

\* what each entry point leaves alone
othersOfBatcher  == <<downloadVars, filterVars, wrapperVars, geoVars, searchVars, datasetVars>>
othersOfDownload == <<batcherVars, filterVars, wrapperVars, geoVars, searchVars, datasetVars>>
othersOfFilters  == <<it, batcherVars, downloadVars, wrapperVars, geoVars, searchVars, datasetVars>>
othersOfWrapper  == <<it, batcherVars, downloadVars, model, _and, geoVars, searchVars, datasetVars>>
othersOfGeo      == <<it, batcherVars, downloadVars, filterVars, wrapperVars, searchVars,
                      datasetVars>>
othersOfSearch   == <<batcherVars, model, _and, wrapperVars, datasetVars>>
othersOfDatasets == <<it, batcherVars, var_names, var_batch_size, geo_complexity, geo_params, i,
                      batch_outputs, responses, api_rows, filterVars, wrapperVars, geoVars,
                      searchVars>>

(***************************************************************************)
(* Bounds of the model.                                                    *)
(***************************************************************************)
MaxLen   == 4    \* longest input of batcher
MaxBatch == 3    \* largest batch size
MaxVars  == 4    \* most variable names of a download
MaxGeo   == 2    \* largest geo_complexity
MaxRows  == 2    \* most rows of an API table
MaxFilters == 2  \* longest filter list
MaxGeoFilters == 2  \* longest geo_filters list
MaxDoc == 2      \* most records of a metadata document
MaxCatalog == 2  \* most entries of a catalog

Min(a, b) == IF a < b THEN a ELSE b

NoResult      == [tag |-> "none"]
Return(v)     == [tag |-> "return", value |-> v]
Raise(e)      == [tag |-> "raise", exc |-> e]

(***************************************************************************)
(* Python helpers.                                                         *)
(***************************************************************************)
\* list(islice(it, 0, stop)): the next `stop` items of the iterator, or fewer
IslicePlus(s, stop) == SubSeq(s, 1, Min(stop + 1, Len(s)))
Islice(s, stop) == SubSeq(s, 1, Min(stop, Len(s)))

\* what islice leaves in the iterator
Consumed(s, stop) == SubSeq(s, Min(stop, Len(s)) + 1, Len(s))

\* sep.join(strs)
RECURSIVE StrJoin(_, _)
StrJoin(sep, strs) ==
    IF strs = <<>> THEN <<>>
    ELSE IF Len(strs) = 1 THEN strs[1]
    ELSE strs[1] \o sep \o StrJoin(sep, Tail(strs))

\* row[:-1 * n]
DropLast(row, n) ==
    IF n = 0 THEN <<>> ELSE SubSeq(row, 1, Len(row) - n)

\* list(chain(*lists))
RECURSIVE Chain(_)
Chain(lists) ==
    IF lists = <<>> THEN <<>> ELSE Head(lists) \o Chain(Tail(lists))

\* zip(*tables): one tuple per row index every table has
RECURSIVE MinLen(_)
MinLen(tables) ==
    IF Len(tables) = 1 THEN Len(tables[1])
    ELSE Min(Len(Head(tables)), MinLen(Tail(tables)))

Zip(tables) ==
    IF tables = <<>> THEN <<>>
    ELSE [r \in 1..MinLen(tables) |-> [k \in 1..Len(tables) |-> tables[k][r]]]

(***************************************************************************)
(* utils.batcher                                                           *)
(***************************************************************************)
Elems == {1, 2}

RECURSIVE SeqsUpTo(_, _)
SeqsUpTo(S, n) ==
    IF n = 0 THEN {<<>>}
    ELSE LET shorter == SeqsUpTo(S, n - 1)
         IN  shorter \cup {Append(s, x) : s \in {t \in shorter : Len(t) = n - 1}, x \in S}

\* an optional argument: None, or a value
None    == [some |-> FALSE, list |-> <<>>]
Some(l) == [some |-> TRUE, list |-> l]

\* the criteria of a filter: a caller's predicate
\* lambda x: re.search(pattern, x, re.IGNORECASE) is not None, a string pattern,
\* a value that is neither (an int), the closure `match` the wrapper defines,
\* and the value of `criterion` before the loop binds it
Lambda(p)  == [kind |-> "lambda", pattern |-> p]
Str(p)     == [kind |-> "str", pattern |-> p]
IntValue   == [kind |-> "int", pattern |-> <<>>]
MatchFn    == [kind |-> "match", pattern |-> <<>>]
Unbound    == [kind |-> "unbound", pattern |-> <<>>]

IdleFilters ==
    /\ model = [fields |-> <<>>, has_filterable_attrs |-> FALSE, filterable_attrs |-> {}]
    /\ regex_filters = None
    /\ _and = TRUE

IdleWrapper ==
    /\ idx = 0
    /\ criterion = Unbound
    /\ enforced_filters = <<>>

IdleBatcher ==
    /\ iterable = <<>>
    /\ batch_size = 0
    /\ yielded = <<>>

IdleDownload ==
    /\ var_names = <<>>
    /\ var_batch_size = 0
    /\ geo_complexity = 0
    /\ geo_params = <<>>
    /\ i = 0
    /\ batch_outputs = <<>>
    /\ requests = <<>>
    /\ responses = <<>>
    /\ api_rows = 0

IdleGeo ==
    /\ geography = [name |-> <<>>, geo_level |-> <<>>, requires |-> <<>>,
                    wildcard |-> <<>>, optional_wildcard |-> <<>>]
    /\ geo_filters = None

NoDownloadArgs ==
    [geo_level |-> None, geography |-> None, variable_names |-> None, variables |-> None]

IdleDatasets ==
    /\ catalog = <<>>
    /\ path = None
    /\ include_sub_datasets = TRUE

IdleSearch ==
    /\ op = "none"
    /\ document = <<>>
    /\ and_or = "and"
    /\ download_args = NoDownloadArgs

IdleOthersOfBatcher  ==
    IdleDownload /\ IdleFilters /\ IdleWrapper /\ IdleGeo /\ IdleSearch /\ IdleDatasets
IdleOthersOfDownload ==
    IdleBatcher /\ IdleFilters /\ IdleWrapper /\ IdleGeo /\ IdleSearch /\ IdleDatasets
IdleOthersOfFilters  ==
    /\ it = <<>>
    /\ IdleBatcher /\ IdleDownload /\ IdleWrapper /\ IdleGeo /\ IdleSearch /\ IdleDatasets
IdleOthersOfGeo      ==
    /\ it = <<>>
    /\ IdleBatcher /\ IdleDownload /\ IdleFilters /\ IdleWrapper /\ IdleSearch /\ IdleDatasets
IdleOthersOfWrapper  ==
    /\ it = <<>>
    /\ IdleBatcher
    /\ IdleDownload
    /\ model = [fields |-> <<>>, has_filterable_attrs |-> FALSE, filterable_attrs |-> {}]
    /\ _and = TRUE
    /\ IdleGeo
    /\ IdleSearch
    /\ IdleDatasets

InitBatcher ==
    /\ pc = "batcher"
    /\ result = NoResult
    /\ iterable \in SeqsUpTo(Elems, MaxLen)
    /\ batch_size \in 1..MaxBatch
    /\ it = iterable
    /\ yielded = <<>>
    /\ IdleOthersOfBatcher

\* one turn of the while loop that yields a chunk
BatcherYield ==
    /\ pc = "batcher"
    /\ LET lst == Islice(it, batch_size)
       IN  /\ lst # <<>>
           /\ yielded' = Append(yielded, lst)
           /\ it' = Consumed(it, batch_size)
    /\ UNCHANGED <<pc, result, iterable, batch_size, othersOfBatcher>>

\* the turn that finds the iterator exhausted and breaks
BatcherBreak ==
    /\ pc = "batcher"
    /\ Islice(it, batch_size) = <<>>
    /\ pc' = "done"
    /\ UNCHANGED <<result, it, yielded, iterable, batch_size, othersOfBatcher>>

NextBatcher == BatcherYield \/ BatcherBreak

(***************************************************************************)
(* Dataset._download                                                       *)
(***************************************************************************)
S_get    == <<"g", "e", "t">>
S_for    == <<"f", "o", "r">>
S_in     == <<"i", "n">>
S_state  == <<"s", "t", "a", "t", "e">>
S_county == <<"c", "o", "u", "n", "t", "y">>
S_tract  == <<"t", "r", "a", "c", "t">>
S_block  == <<"b", "l", "o", "c", "k">>
S_star   == <<"*">>
S_06     == <<"0", "6">>
Comma    == <<",">>
Colon    == <<":">>

VarNamePool == << <<"B", "1">>, <<"B", "2">>, <<"B", "3">>, <<"B", "4">>,
                  <<"B", "5">>, <<"B", "6">> >>
GeoColumns  == <<S_state, S_county, S_tract, S_block>>
GeoParamChoices ==
    { <<<<S_for, S_state \o Colon \o S_star>>>>,
      <<<<S_for, S_county \o Colon \o S_star>>, <<S_in, S_state \o Colon \o S_06>>>> }

HTTP_OK    == 200
HTTP_ERROR == 500

\* The table the API returns for one chunk: a header row and data rows, the
\* chunk's columns followed by the geography columns.  A cell is <<row, column>>.
ApiTable(batch, g, rows) ==
    [r \in 1..rows |->
        [c \in 1..(Len(batch) + g) |->
            <<r - 1, IF c <= Len(batch) THEN batch[c] ELSE GeoColumns[c - Len(batch)]>>]]

\* i < expected_batches, with expected_batches = len(var_names) / var_batch_size
\* a true division: i < n / b exactly when i * b < n
NotLastBatchFloor(k, n, b) == k < n \div b
NotLastBatch(k, n, b) == k * b < n

\* params = [("get", ",".join(batch))] + geo_params
RequestParams(batch, gp) == <<<<S_get, StrJoin(Comma, batch)>>>> \o gp

\* final_output = [list(chain(*row_batches)) for row_batches in zip(*batch_outputs)]
FinalOutput(outputs) ==
    LET z == Zip(outputs) IN [r \in 1..Len(z) |-> Chain(z[r])]

InitDownload ==
    /\ pc = "download"
    /\ result = NoResult
    /\ \E n \in 0..MaxVars : var_names = SubSeq(VarNamePool, 1, n)
    /\ var_batch_size \in 1..MaxBatch
    /\ geo_complexity \in 1..MaxGeo
    /\ geo_params \in GeoParamChoices
    /\ api_rows \in 1..MaxRows
    /\ it = var_names
    /\ i = 0
    /\ batch_outputs = <<>>
    /\ requests = <<>>
    /\ responses = <<>>
    /\ IdleOthersOfDownload

\* a turn of the for loop whose request succeeds
DownloadBatchOk ==
    /\ pc = "download"
    /\ LET batch   == Islice(it, var_batch_size)
           table   == ApiTable(batch, geo_complexity, api_rows)
           results == IF NotLastBatch(i + 1, Len(var_names), var_batch_size)
                      THEN [r \in 1..Len(table) |-> DropLast(table[r], geo_complexity)]
                      ELSE table
       IN  /\ batch # <<>>
           /\ requests' = Append(requests,
                  [params |-> RequestParams(batch, geo_params), status |-> HTTP_OK])
           /\ responses' = Append(responses, table)
           /\ batch_outputs' = Append(batch_outputs, results)
    /\ it' = Consumed(it, var_batch_size)
    /\ i' = i + 1
    /\ UNCHANGED <<pc, result, var_names, var_batch_size, geo_complexity, geo_params,
                   api_rows, othersOfDownload>>

\* a turn of the for loop whose request returns a non-2xx status:
\* resp.raise_for_status() raises and nothing catches it
DownloadBatchFailContinue ==
    /\ pc = "download"
    /\ LET batch == Islice(it, var_batch_size)
       IN  /\ batch # <<>>
           /\ requests' = Append(requests,
                  [params |-> RequestParams(batch, geo_params), status |-> HTTP_ERROR])
    /\ it' = Consumed(it, var_batch_size)
    /\ i' = i + 1
    /\ UNCHANGED <<pc, result, responses, batch_outputs, var_names, var_batch_size,
                   geo_complexity, geo_params, api_rows, othersOfDownload>>

DownloadBatchFail ==
    /\ pc = "download"
    /\ LET batch == Islice(it, var_batch_size)
       IN  /\ batch # <<>>
           /\ requests' = Append(requests,
                  [params |-> RequestParams(batch, geo_params), status |-> HTTP_ERROR])
    /\ it' = Consumed(it, var_batch_size)
    /\ i' = i + 1
    /\ pc' = "done"
    /\ result' = Raise("HTTPError")
    /\ UNCHANGED <<responses, batch_outputs, var_names, var_batch_size,
                   geo_complexity, geo_params, api_rows, othersOfDownload>>

\* the generator is exhausted: stitch the batches and return
DownloadReturn ==
    /\ pc = "download"
    /\ Islice(it, var_batch_size) = <<>>
    /\ pc' = "done"
    /\ result' = Return(FinalOutput(batch_outputs))
    /\ UNCHANGED <<it, i, batch_outputs, requests, responses, var_names, var_batch_size,
                   geo_complexity, geo_params, api_rows, othersOfDownload>>

NextDownload == DownloadBatchOk \/ DownloadBatchFail \/ DownloadReturn

(***************************************************************************)
(* Claims about utils.batcher and Dataset._download                        *)
(***************************************************************************)
CeilDiv(n, b) == (n + b - 1) \div b

\* the k-th consecutive slice of at most b items of s
Slice(s, k, b) == SubSeq(s, (k - 1) * b + 1, Min(k * b, Len(s)))

\* C3: batcher never yields an empty chunk; what it has yielded so far is the
\* input's consecutive slices of batch_size items, in order; and once it has
\* finished the chunks cover the whole input: every chunk but the last has
\* exactly batch_size items, the last has 1..batch_size, and an empty input
\* yields no chunk.
C3_BatcherPartitions ==
    /\ \A k \in 1..Len(yielded) :
          /\ yielded[k] # <<>>
          /\ yielded[k] = Slice(iterable, k, batch_size)
    /\ pc = "done" =>
          /\ Len(yielded) = CeilDiv(Len(iterable), batch_size)
          /\ \A k \in 1..(Len(yielded) - 1) : Len(yielded[k]) = batch_size
          /\ yielded # <<>> =>
                /\ Len(yielded[Len(yielded)]) >= 1
                /\ Len(yielded[Len(yielded)]) <= batch_size
          /\ \A p \in 1..Len(iterable) :
                yielded[CeilDiv(p, batch_size)][p - (CeilDiv(p, batch_size) - 1) * batch_size]
                    = iterable[p]
          /\ iterable = <<>> => yielded = <<>>

\* batcher has finished on an input that needed a full chunk and a shorter last one
C3_Witness ==
    /\ pc = "done"
    /\ Len(yielded) >= 2
    /\ Len(yielded[1]) = batch_size
    /\ Len(yielded[Len(yielded)]) < batch_size

\* row r of the first k responses, each but the final response stripped of its
\* trailing geo_complexity columns
RECURSIVE StitchedRow(_, _)
StitchedRow(r, k) ==
    IF k = 0 THEN <<>>
    ELSE StitchedRow(r, k - 1) \o
         (IF k < Len(responses)
          THEN SubSeq(responses[k][r], 1, Len(responses[k][r]) - geo_complexity)
          ELSE responses[k][r])

\* C1: when every chunk request succeeded, row r of the returned table is the
\* concatenation, in chunk order, of row r of every response, the trailing
\* geo_complexity columns removed from all but the final response; so the row
\* holds the requested columns in order and the geography columns once, last.
C1_DownloadStitches ==
    (pc = "done" /\ result.tag = "return" /\ Len(var_names) >= 1) =>
        /\ Len(responses) = CeilDiv(Len(var_names), var_batch_size)
        /\ Len(result.value) = api_rows
        /\ \A r \in 1..api_rows :
              /\ result.value[r] = StitchedRow(r, Len(responses))
              /\ Len(result.value[r]) = Len(var_names) + geo_complexity
              /\ \A c \in 1..Len(var_names) : result.value[r][c] = <<r - 1, var_names[c]>>
              /\ \A g \in 1..geo_complexity :
                    result.value[r][Len(var_names) + g] = <<r - 1, GeoColumns[g]>>

\* a download of several chunks returned, the variable count an exact multiple
\* of the batch size
C1_Witness ==
    /\ pc = "done"
    /\ result.tag = "return"
    /\ Len(responses) >= 2
    /\ Len(var_names) = Len(responses) * var_batch_size
    /\ api_rows >= 2

\* C2: requests go out one per loop turn, request k for chunk k with params
\* [("get", joined chunk)] + geo_params; only the latest request can have
\* failed, a failed request ends the download with an HTTP error and no table,
\* and a download that returns has issued exactly ceil(n / batch_size) requests.
C2_DownloadRequests ==
    LET K == CeilDiv(Len(var_names), var_batch_size) IN
    /\ Len(requests) = i
    /\ Len(requests) <= K
    /\ \A k \in 1..Len(requests) :
          /\ requests[k].params =
                <<<<S_get, StrJoin(Comma, Slice(var_names, k, var_batch_size))>>>> \o geo_params
          /\ k < Len(requests) => requests[k].status = HTTP_OK
    /\ (\E k \in 1..Len(requests) : requests[k].status # HTTP_OK) =>
          /\ pc = "done"
          /\ result = Raise("HTTPError")
    /\ result.tag = "raise" =>
          /\ requests # <<>>
          /\ requests[Len(requests)].status # HTTP_OK
    /\ result.tag = "return" =>
          /\ Len(requests) = K
          /\ \A k \in 1..K : requests[k].status = HTTP_OK

\* the second of at least three chunks failed: chunk 1 had been fetched, no
\* table is returned and no request went out for chunk 3
C2_Witness ==
    /\ pc = "done"
    /\ result.tag = "raise"
    /\ Len(requests) = 2
    /\ Len(batch_outputs) = 1
    /\ CeilDiv(Len(var_names), var_batch_size) >= 3

(***************************************************************************)
(* utils.check_filters                                                     *)
(***************************************************************************)
UpperCase == <<"A", "B", "C", "D", "E", "F", "G", "H", "I", "J", "K", "L", "M",
               "N", "O", "P", "Q", "R", "S", "T", "U", "V", "W", "X", "Y", "Z">>
LowerCase == <<"a", "b", "c", "d", "e", "f", "g", "h", "i", "j", "k", "l", "m",
               "n", "o", "p", "q", "r", "s", "t", "u", "v", "w", "x", "y", "z">>

\* re.IGNORECASE on ASCII text: compare the lower-cased characters
Lower(c) ==
    IF \E k \in 1..Len(UpperCase) : UpperCase[k] = c
    THEN LowerCase[CHOOSE k \in 1..Len(UpperCase) : UpperCase[k] = c]
    ELSE c

LowerStr(str) == [k \in 1..Len(str) |-> Lower(str[k])]

\* needle in haystack
Contains(needle, haystack) ==
    \E k \in 0..(Len(haystack) - Len(needle)) :
        SubSeq(haystack, k + 1, k + Len(needle)) = needle

\* re.search(pattern, val, re.IGNORECASE) is not None, for a pattern of
\* literal characters (no regex metacharacter)
ReSearch(pattern, val) == Contains(LowerStr(pattern), LowerStr(val))

\* match(val): calling a criterion.  `cell` is the wrapper's variable
\* `criterion`, which the closure `match` reads when it is called.
CallCriterion(crit, val, cell) ==
    CASE crit.kind = "lambda" -> Return(ReSearch(crit.pattern, val))
      [] crit.kind = "match"  ->
            IF cell.kind = "str" THEN Return(ReSearch(cell.pattern, val))
            ELSE Raise("TypeError")   \* re.search(<not a pattern>, val)
      [] OTHER -> Raise("TypeError")  \* 'str' / 'int' object is not callable

\* field not in model.filterable_attrs
FieldAllowedAlways(m, field) == TRUE
FieldAllowed(m, field) == field \in m.filterable_attrs

\* lines 74-76: the empty case, then the and/or combination
CombineNoEmptyCase(filter_evals, conj) ==
    \/ conj /\ \A k \in 1..Len(filter_evals) : filter_evals[k]
    \/ ~conj /\ \E k \in 1..Len(filter_evals) : filter_evals[k]
Combine(filter_evals, conj) ==
    IF filter_evals = <<>> THEN TRUE
    ELSE \/ conj /\ \A k \in 1..Len(filter_evals) : filter_evals[k]
         \/ ~conj /\ \E k \in 1..Len(filter_evals) : filter_evals[k]

\* the for loop of check_filters from position k on, filter_evals so far
RECURSIVE CheckLoop(_, _, _, _, _, _)
CheckLoop(m, rfs, conj, k, filter_evals, cell) ==
    IF k > Len(rfs) THEN Return(Combine(filter_evals, conj))
    ELSE LET field == rfs[k][1]
             match == rfs[k][2]
         IN  IF ~m.has_filterable_attrs THEN Raise("AttributeError")
             ELSE IF ~FieldAllowed(m, field) THEN Raise("ValueError")
             ELSE IF field \notin DOMAIN m.fields THEN Raise("AttributeError")
             ELSE LET b == CallCriterion(match, m.fields[field], cell)
                  IN  IF b.tag = "raise" THEN b
                      ELSE CheckLoop(m, rfs, conj, k + 1, Append(filter_evals, b.value), cell)

\* check_filters(model, regex_filters, _and)
CheckFilters(m, rf, conj, cell) ==
    IF ~rf.some THEN Raise("TypeError")   \* 'NoneType' object is not iterable
    ELSE CheckLoop(m, rf.list, conj, 1, <<>>, cell)

val1 == <<"v", "a", "l", "1">>
val2 == <<"v", "a", "l", "2">>

\* the fixtures of tests/test_utils.py, and a record with other values
ProperClass(a1, a2) ==
    [fields |-> [attr1 |-> a1, attr2 |-> a2],
     has_filterable_attrs |-> TRUE,
     filterable_attrs |-> {"attr1", "attr2"}]
BadClass ==
    [fields |-> [random_attr |-> <<"w", "r", "o", "n", "g", "_", "a", "t", "t", "r">>],
     has_filterable_attrs |-> FALSE,
     filterable_attrs |-> {}]
Models == {ProperClass(val1, val2), ProperClass(val2, val2), BadClass}

FilterFields   == {"attr1", "attr2", "attr3"}
FilterCriteria == {Lambda(<<"1">>), Lambda(<<"3">>), Lambda(<<"V", "A", "L">>), Str(<<"1">>)}

InitFilters ==
    /\ pc = "check_filters"
    /\ result = NoResult
    /\ model \in Models
    /\ \E l \in SeqsUpTo(FilterFields \X FilterCriteria, MaxFilters) : regex_filters = Some(l)
    /\ _and \in BOOLEAN
    /\ IdleOthersOfFilters

CallCheckFilters ==
    /\ pc = "check_filters"
    /\ pc' = "done"
    /\ result' = CheckFilters(model, regex_filters, _and, criterion)
    /\ UNCHANGED <<filterVars, othersOfFilters>>

NextFilters == CallCheckFilters

\* C4: on a record that declares filterable_attrs, with filters on filterable
\* fields whose criteria are all predicates, check_filters returns true exactly
\* when the list is empty, or the mode is AND and every predicate holds on its
\* field's value, or the mode is OR and at least one holds.
C4_CheckFiltersAndOr ==
    LET rfs == regex_filters.list
        Holds(k) == ReSearch(rfs[k][2].pattern, model.fields[rfs[k][1]])
    IN  (/\ pc = "done"
         /\ model.has_filterable_attrs
         /\ \A k \in 1..Len(rfs) :
               rfs[k][1] \in model.filterable_attrs /\ rfs[k][2].kind = "lambda")
        => /\ result.tag = "return"
           /\ result.value <=>
                 \/ rfs = <<>>
                 \/ _and /\ \A k \in 1..Len(rfs) : Holds(k)
                 \/ ~_and /\ \E k \in 1..Len(rfs) : Holds(k)

\* one criterion matches and the other does not; AND mode answered false
C4_Witness ==
    /\ pc = "done"
    /\ model = ProperClass(val1, val2)
    /\ regex_filters = Some(<<<<"attr1", Lambda(<<"1">>)>>, <<"attr2", Lambda(<<"3">>)>>>>)
    /\ _and
    /\ result = Return(FALSE)

\* C5: when the criteria are predicates and some pair names a field that is
\* not in filterable_attrs, check_filters raises ValueError (InvalidFilterField)
\* in both modes, wherever that pair stands and whatever the others evaluate to.
C5_InvalidFilterField ==
    LET rfs == regex_filters.list
    IN  (/\ pc = "done"
         /\ model.has_filterable_attrs
         /\ \A k \in 1..Len(rfs) : rfs[k][2].kind = "lambda"
         /\ \E k \in 1..Len(rfs) : rfs[k][1] \notin model.filterable_attrs)
        => result = Raise("ValueError")

\* OR mode, a criterion that matches, then a pair on a field that is not filterable
C5_Witness ==
    /\ pc = "done"
    /\ model = ProperClass(val1, val2)
    /\ regex_filters = Some(<<<<"attr1", Lambda(<<"1">>)>>, <<"attr3", Lambda(<<"1">>)>>>>)
    /\ ~_and
    /\ result = Raise("ValueError")

\* C11: on a record that declares no filterable_attrs, check_filters raises
\* AttributeError for every filter list, the empty list included, and never
\* returns a boolean.
C11_NoFilterableAttrs ==
    (/\ pc = "done"
     /\ ~model.has_filterable_attrs
     /\ regex_filters.some)
    => result = Raise("AttributeError")

(***************************************************************************)
(* utils.force_regex_filters: the wrapper around a function that returns   *)
(* the regex_filters it receives (tests/test_utils.py)                     *)
(***************************************************************************)
WrapperFields   == {"attr1", "attr2"}
WrapperCriteria == {Str(<<"1">>), Str(<<"2">>), Str(<<"V", "A", "L">>), Lambda(<<"3">>), IntValue}
TestValues      == {val1, val2}

\* callable(criterion)
Callable(crit) == crit.kind \in {"lambda", "match"}

\* rfs = regex_filters or []
Rfs(rf) == IF rf.some THEN rf.list ELSE <<>>

InitWrapper ==
    /\ pc = "wrapper"
    /\ result = NoResult
    /\ \/ regex_filters = None
       \/ \E l \in SeqsUpTo(WrapperFields \X WrapperCriteria, MaxFilters) :
             regex_filters = Some(l)
    /\ idx = 0
    /\ criterion = Unbound
    /\ enforced_filters = <<>>
    /\ IdleOthersOfWrapper

\* a turn of the for loop on a callable criterion: kept as it is
WrapperKeepCallable ==
    /\ pc = "wrapper"
    /\ idx < Len(Rfs(regex_filters))
    /\ LET field == Rfs(regex_filters)[idx + 1][1]
           crit  == Rfs(regex_filters)[idx + 1][2]
       IN  /\ Callable(crit)
           /\ criterion' = crit
           /\ enforced_filters' = Append(enforced_filters, <<field, crit>>)
    /\ idx' = idx + 1
    /\ UNCHANGED <<pc, result, regex_filters, othersOfWrapper>>

\* a turn on a string criterion: the closure `match` is appended; it refers
\* to the variable `criterion`, not to the value the variable has now
WrapperWrapString ==
    /\ pc = "wrapper"
    /\ idx < Len(Rfs(regex_filters))
    /\ LET field == Rfs(regex_filters)[idx + 1][1]
           crit  == Rfs(regex_filters)[idx + 1][2]
       IN  /\ ~Callable(crit)
           /\ crit.kind = "str"
           /\ criterion' = crit
           /\ enforced_filters' = Append(enforced_filters, <<field, MatchFn>>)
    /\ idx' = idx + 1
    /\ UNCHANGED <<pc, result, regex_filters, othersOfWrapper>>

\* a turn on a criterion that is neither: ValueError
WrapperRaise ==
    /\ pc = "wrapper"
    /\ idx < Len(Rfs(regex_filters))
    /\ LET crit == Rfs(regex_filters)[idx + 1][2]
       IN  /\ ~Callable(crit)
           /\ crit.kind # "str"
           /\ criterion' = crit
    /\ pc' = "done"
    /\ result' = Raise("ValueError")
    /\ UNCHANGED <<idx, enforced_filters, regex_filters, othersOfWrapper>>

\* the loop is over: func is called with enforced_filters as its regex_filters
WrapperCall ==
    /\ pc = "wrapper"
    /\ idx = Len(Rfs(regex_filters))
    /\ pc' = "done"
    /\ result' = Return(enforced_filters)
    /\ UNCHANGED <<idx, criterion, enforced_filters, regex_filters, othersOfWrapper>>

NextWrapper == WrapperKeepCallable \/ WrapperWrapString \/ WrapperRaise \/ WrapperCall

\* C6: the wrapped function receives a list of the same length and fields, the
\* callable criteria unchanged and each string criterion replaced by a predicate
\* that answers, on every value, whether the pattern given at its own position
\* is found by a case-insensitive search; a criterion that is neither a string
\* nor a callable makes the call raise ValueError (InvalidCriterion).
C6_ForceRegexFilters ==
    LET rfs == Rfs(regex_filters)
    IN  pc = "done" =>
          IF \E k \in 1..Len(rfs) : rfs[k][2].kind \notin {"lambda", "str"}
          THEN result = Raise("ValueError")
          ELSE /\ result.tag = "return"
               /\ Len(result.value) = Len(rfs)
               /\ \A k \in 1..Len(rfs) :
                     /\ result.value[k][1] = rfs[k][1]
                     /\ rfs[k][2].kind = "lambda" => result.value[k][2] = rfs[k][2]
                     /\ rfs[k][2].kind = "str" =>
                           \A v \in TestValues :
                               CallCriterion(result.value[k][2], v, criterion)
                                   = Return(ReSearch(rfs[k][2].pattern, v))

(***************************************************************************)
(* Geography.filter_to_params                                              *)
(***************************************************************************)
MissingRequiredField == "ValueError: required geography field not found in filter"
UnsupportedWildcard  == "ValueError: geography field does not accept wildcards"

\* x in lst
InList(x, lst) == \E k \in 1..Len(lst) : lst[k] = x

\* the keys of filter_dict, in the order the loop inserts them
RECURSIVE FilterKeys(_)
FilterKeys(gf) ==
    IF gf = <<>> THEN <<>>
    ELSE LET before == FilterKeys(SubSeq(gf, 1, Len(gf) - 1))
             geo_loc == gf[Len(gf)][1]
         IN  IF InList(geo_loc, before) THEN before ELSE Append(before, geo_loc)

\* filter_dict[k]: the values given for k, in order
RECURSIVE FilterValues(_, _)
FilterValues(gf, k) ==
    IF gf = <<>> THEN <<>>
    ELSE (IF Head(gf)[1] = k THEN <<Head(gf)[2]>> ELSE <<>>) \o FilterValues(Tail(gf), k)

\* filters[k] = ",".join(filter_dict[k])
JoinedFilter(gf, k) == StrJoin(Comma, FilterValues(gf, k))

\* the first required field that fails the check of lines 44-46, if any
RECURSIVE FirstMissing(_, _, _)
FirstMissing(required_fields, keys, optional_wildcard) ==
    IF required_fields = <<>> THEN 0
    ELSE IF /\ ~InList(Head(required_fields), keys)
            /\ Head(required_fields) # optional_wildcard
         THEN 1
         ELSE LET rest == FirstMissing(Tail(required_fields), keys, optional_wildcard)
              IN  IF rest = 0 THEN 0 ELSE rest + 1

\* `field` in line 51 is the function dataclasses.field imported in line 3,
\* not the loop variable f: no element of a list of strings equals it
DataclassesField == <<"<function field>">>
WildcardRefused(self, f, value) ==
    value = S_star /\ ~InList(DataclassesField, self.wildcard)

\* the loop of lines 50-53 over the keys left after the pop, in_filter so far
RECURSIVE InFilter(_, _, _, _)
InFilter(self, gf, keys, in_filter) ==
    IF keys = <<>> THEN Return(in_filter)
    ELSE LET f     == Head(keys)
             value == JoinedFilter(gf, f)
         IN  IF WildcardRefused(self, f, value) THEN Raise(UnsupportedWildcard)
             ELSE InFilter(self, gf, Tail(keys),
                           Append(in_filter, <<S_in, f \o Colon \o value>>))

\* lines 43-46: no required field fails the check
RequiredCheck(self, keys) ==
    FirstMissing(<<self.name>> \o self.requires, keys, self.optional_wildcard) = 0

FilterToParams(self, gfs) ==
    IF ~gfs.some THEN Return(<<<<S_for, self.name \o Colon \o S_star>>>>)
    ELSE LET gf   == gfs.list
             keys == FilterKeys(gf)
         IN  IF ~RequiredCheck(self, keys) THEN Raise(MissingRequiredField)
             ELSE IF ~InList(self.name, keys) THEN Raise("KeyError")   \* filters.pop(self.name)
             ELSE LET for_filter == <<<<S_for, self.name \o Colon \o JoinedFilter(gf, self.name)>>>>
                      rest == SelectSeq(keys, LAMBDA k : k # self.name)
                      in_filter == InFilter(self, gf, rest, <<>>)
                  IN  IF in_filter.tag = "raise" THEN in_filter
                      ELSE Return(for_filter \o in_filter.value)

S_040 == <<"0", "4", "0">>
S_050 == <<"0", "5", "0">>
S_140 == <<"1", "4", "0">>

Geography(name, geo_level, requires, wildcard, optional_wildcard) ==
    [name |-> name, geo_level |-> geo_level, requires |-> requires,
     wildcard |-> wildcard, optional_wildcard |-> optional_wildcard]

\* complexity = len(requires) + 1
Complexity(self) == Len(self.requires) + 1

Geographies ==
    { Geography(S_state, S_040, <<>>, <<>>, <<>>),
      Geography(S_state, S_040, <<>>, <<>>, S_state),
      Geography(S_county, S_050, <<S_state>>, <<S_state>>, S_state),
      Geography(S_county, S_050, <<S_state>>, <<>>, <<>>),
      Geography(S_tract, S_140, <<S_state, S_county>>, <<S_county>>, S_county) }

GeoFilterFields == {S_state, S_county, S_tract}
GeoFilterValues == {S_06, S_star}

InitGeo ==
    /\ pc = "filter_to_params"
    /\ result = NoResult
    /\ geography \in Geographies
    /\ \/ geo_filters = None
       \/ \E l \in SeqsUpTo(GeoFilterFields \X GeoFilterValues, MaxGeoFilters) :
             geo_filters = Some(l)
    /\ IdleOthersOfGeo

CallFilterToParams ==
    /\ pc = "filter_to_params"
    /\ pc' = "done"
    /\ result' = FilterToParams(geography, geo_filters)
    /\ UNCHANGED <<geoVars, othersOfGeo>>

NextGeo == CallFilterToParams

\* the fields the filter list supplies, and the value given for each
Supplied == {geo_filters.list[k][1] : k \in 1..Len(geo_filters.list)}
RequiredSet == {geography.name} \cup {geography.requires[k] : k \in 1..Len(geography.requires)}
WildcardSet == {geography.wildcard[k] : k \in 1..Len(geography.wildcard)}
SuppliedStar(f) ==
    /\ f \in Supplied
    /\ \A k \in 1..Len(geo_filters.list) :
          geo_filters.list[k][1] = f => geo_filters.list[k][2] = S_star
    /\ Cardinality({k \in 1..Len(geo_filters.list) : geo_filters.list[k][1] = f}) = 1

\* C8: with a filter list that passes the required-field check, the call fails
\* with UnsupportedWildcard exactly when some supplied field other than the
\* geography's name has the value "*" and is not in the wildcard list; a field
\* of the wildcard list given "*" is emitted as ("in", "<field>:*").
C8_WildcardCheck ==
    (/\ pc = "done"
     /\ geo_filters.some
     /\ geography.name \in Supplied
     /\ \A f \in RequiredSet : f \in Supplied \/ f = geography.optional_wildcard)
    => /\ result = Raise(UnsupportedWildcard) <=>
             \E f \in Supplied \ {geography.name} : SuppliedStar(f) /\ f \notin WildcardSet
       /\ \A f \in (Supplied \cap WildcardSet) \ {geography.name} :
             (SuppliedStar(f) /\ result.tag = "return") =>
                 \E k \in 1..Len(result.value) : result.value[k] = <<S_in, f \o Colon \o S_star>>

\* C9: with a filter list, the call fails with MissingRequiredField exactly
\* when a field of {name} + requires is neither supplied nor the
\* optional_wildcard field; and a call that supplies every such field but the
\* optional_wildcard one, without "*" values, returns parameters.
C9_RequiredFields ==
    (pc = "done" /\ geo_filters.some)
    => /\ result = Raise(MissingRequiredField) <=>
             \E f \in RequiredSet : f \notin Supplied /\ f # geography.optional_wildcard
       /\ (/\ \A f \in RequiredSet : f \in Supplied \/ f = geography.optional_wildcard
           /\ \A k \in 1..Len(geo_filters.list) : geo_filters.list[k][2] # S_star)
          => result.tag = "return"

(***************************************************************************)
(* The searches of Dataset and Group, and Dataset.download                 *)
(***************************************************************************)
\* the record check_filters sees: the attributes a filter can reach
GeographyModel(g) ==
    [fields |-> [name |-> g.name, geo_level |-> g.geo_level],
     has_filterable_attrs |-> TRUE,
     filterable_attrs |-> {"name", "geo_level"}]
GroupModel(g) ==
    [fields |-> [name |-> g.name, description |-> g.description],
     has_filterable_attrs |-> TRUE,
     filterable_attrs |-> {"name", "description"}]
VariableModel(v) ==
    [fields |-> [name |-> v.name, label |-> v.label, concept |-> v.concept,
                 group_name |-> v.group_name],
     has_filterable_attrs |-> TRUE,
     filterable_attrs |-> {"name", "label", "concept", "group_name"}]

\* the loop `for info in ...: if check_filters(model, ...): hits.append(model)`
\* from record k on; hits holds the positions appended so far
RECURSIVE HitsLoop(_, _, _, _, _)
HitsLoop(models, rf, conj, k, hits) ==
    IF k > Len(models) THEN Return(hits)
    ELSE LET passed == CheckFilters(models[k], rf, conj, Unbound)
         IN  IF passed.tag = "raise" THEN passed
             ELSE HitsLoop(models, rf, conj, k + 1,
                           IF passed.value THEN Append(hits, k) ELSE hits)

\* resp.raise_for_status(), then the loop over the document's records
FetchAndFilter(status, records, models, rf, conj) ==
    IF status # HTTP_OK THEN Raise("HTTPError")
    ELSE LET hits == HitsLoop(models, rf, conj, 1, <<>>)
         IN  IF hits.tag = "raise" THEN hits
             ELSE Return([j \in 1..Len(hits.value) |-> records[hits.value[j]]])

\* _search_geography(geo_url, regex_filters): check_filters with the default _and
SearchGeographyCall(status, doc, rf) ==
    FetchAndFilter(status, doc, [k \in 1..Len(doc) |-> GeographyModel(doc[k])], rf, TRUE)

\* _search_groups(group_url, regex_filters, and_or)
SearchGroupsCall(status, doc, rf, andor) ==
    FetchAndFilter(status, doc, [k \in 1..Len(doc) |-> GroupModel(doc[k])], rf, andor = "and")

\* lru_cache hashes the arguments before anything else: a list is unhashable.
\* The cache is empty when the call starts, so a hashable call runs the function.
Hashable(rf) == ~rf.some

\* variable._search_variables(var_url, regex_filters, and_or) under lru_cache
SearchVariablesCall(status, doc, rf, andor) ==
    IF ~Hashable(rf) THEN Raise("TypeError")
    ELSE FetchAndFilter(status, doc, [k \in 1..Len(doc) |-> VariableModel(doc[k])],
                        rf, andor = "and")

\* whether a call got as far as its HTTP request
Fetches(o, rf) == o \in {"Dataset.search_variables", "Group.search_variables"} => Hashable(rf)

Group(name, description) == [name |-> name, description |-> description]
Variable(name, label, concept, group_name) ==
    [name |-> name, label |-> label, concept |-> concept, group_name |-> group_name]

S_B01   == <<"B", "0", "1">>
S_B02   == <<"B", "0", "2">>
S_sex   == <<"S", "e", "x">>
S_race  == <<"R", "a", "c", "e">>
S_B1    == <<"B", "1">>
S_B2    == <<"B", "2">>
S_total == <<"T", "o", "t", "a", "l">>
S_male  == <<"M", "a", "l", "e">>

GeographyRecords ==
    { Geography(S_county, S_050, <<S_state>>, <<S_state>>, S_state),
      Geography(S_tract, S_140, <<S_state, S_county>>, <<S_county>>, S_county) }
GroupRecords    == {Group(S_B01, S_sex), Group(S_B02, S_race)}
VariableRecords == {Variable(S_B1, S_total, S_sex, S_B01), Variable(S_B2, S_male, S_sex, S_B01)}

SearchOps == {"Dataset.search_geography", "Dataset.search_groups",
              "Dataset.search_variables", "Group.search_variables"}

RecordsOf(o) ==
    CASE o = "Dataset.search_geography" -> GeographyRecords
      [] o = "Dataset.download"         -> GeographyRecords
      [] o = "Dataset.search_groups"    -> GroupRecords
      [] OTHER                          -> VariableRecords

\* filters on filterable fields: string patterns and a caller's predicate
FiltersOf(o) ==
    CASE o = "Dataset.search_geography" ->
            {<<"name", Str(<<"C", "O">>)>>, <<"name", Str(<<"t">>)>>,
             <<"geo_level", Str(S_050)>>, <<"geo_level", Lambda(<<"0">>)>>}
      [] o = "Dataset.search_groups" ->
            {<<"name", Str(<<"b", "0">>)>>, <<"name", Str(<<"2">>)>>,
             <<"description", Str(<<"E">>)>>, <<"description", Lambda(<<"s">>)>>}
      [] OTHER ->
            {<<"name", Str(<<"b">>)>>, <<"name", Str(<<"2">>)>>,
             <<"label", Str(<<"A", "L">>)>>, <<"label", Lambda(<<"t">>)>>}

\* var_batch_size = 50
DefaultBatchSize == 50

InitSearch ==
    /\ pc = "call"
    /\ result = NoResult
    /\ op \in SearchOps
    /\ document \in SeqsUpTo(RecordsOf(op), MaxDoc)
    /\ \/ regex_filters = None
       \/ \E l \in SeqsUpTo(FiltersOf(op), MaxFilters) : regex_filters = Some(l)
    /\ and_or \in (IF op = "Dataset.search_geography" THEN {"and"} ELSE {"and", "or"})
    /\ download_args = NoDownloadArgs
    /\ api_rows = 0
    /\ geo_filters = None
    /\ geography = Geography(<<>>, <<>>, <<>>, <<>>, <<>>)

InitDatasetDownload ==
    /\ pc = "call"
    /\ result = NoResult
    /\ op = "Dataset.download"
    /\ document \in SeqsUpTo(GeographyRecords, MaxDoc)
    /\ regex_filters = None
    /\ and_or = "and"
    /\ download_args \in
          [geo_level : {None, Some(S_050)},
           geography : {None, Some(Geography(S_county, S_050, <<S_state>>, <<S_state>>, S_state))},
           variable_names : {None, Some(<<S_B1, S_B2>>)},
           variables : {None, Some(<<Variable(S_B2, S_male, S_sex, S_B01)>>)}]
    /\ geo_filters \in {None, Some(<<<<S_county, S_star>>, <<S_state, S_06>>>>)}
    /\ api_rows \in 1..MaxRows
    /\ geography = Geography(<<>>, <<>>, <<>>, <<>>, <<>>)

InitSearchSpec ==
    /\ InitSearch \/ InitDatasetDownload
    /\ it = <<>>
    /\ var_names = <<>>
    /\ var_batch_size = 0
    /\ geo_complexity = 0
    /\ geo_params = <<>>
    /\ i = 0
    /\ batch_outputs = <<>>
    /\ requests = <<>>
    /\ responses = <<>>
    /\ IdleBatcher
    /\ model = [fields |-> <<>>, has_filterable_attrs |-> FALSE, filterable_attrs |-> {}]
    /\ _and = TRUE
    /\ IdleWrapper
    /\ IdleDatasets

\* the request a search sends for its metadata document, unless it raised before
LogFetch(status) ==
    requests' = IF Fetches(op, regex_filters)
                THEN Append(requests, [params |-> <<>>, status |-> status])
                ELSE requests

searchUnchanged ==
    <<it, var_names, var_batch_size, geo_complexity, geo_params, i, batch_outputs,
      responses, api_rows, regex_filters, geoVars, searchVars, othersOfSearch>>

\* Dataset.search_geography(regex_filters)
SearchGeography ==
    /\ pc = "call" /\ op = "Dataset.search_geography"
    /\ \E status \in {HTTP_OK, HTTP_ERROR} :
          /\ result' = SearchGeographyCall(status, document, regex_filters)
          /\ LogFetch(status)
    /\ pc' = "done"
    /\ UNCHANGED searchUnchanged

\* Dataset.search_groups(regex_filters, and_or)
SearchGroups ==
    /\ pc = "call" /\ op = "Dataset.search_groups"
    /\ \E status \in {HTTP_OK, HTTP_ERROR} :
          /\ result' = SearchGroupsCall(status, document, regex_filters, and_or)
          /\ LogFetch(status)
    /\ pc' = "done"
    /\ UNCHANGED searchUnchanged

\* Dataset.search_variables(regex_filters, and_or)
DatasetSearchVariables ==
    /\ pc = "call" /\ op = "Dataset.search_variables"
    /\ \E status \in {HTTP_OK, HTTP_ERROR} :
          /\ result' = SearchVariablesCall(status, document, regex_filters, and_or)
          /\ LogFetch(status)
    /\ pc' = "done"
    /\ UNCHANGED searchUnchanged

\* Group.search_variables(regex_filters, and_or)
GroupSearchVariables ==
    /\ pc = "call" /\ op = "Group.search_variables"
    /\ \E status \in {HTTP_OK, HTTP_ERROR} :
          /\ result' = SearchVariablesCall(status, document, regex_filters, and_or)
          /\ LogFetch(status)
    /\ pc' = "done"
    /\ UNCHANGED searchUnchanged

\* lines 80-85: the geography of a download
ResolveGeography(status, doc, args) ==
    IF args.geo_level.some
    THEN LET found == SearchGeographyCall(status, doc,
                          Some(<<<<"geo_level", Str(args.geo_level.list)>>>>))
         IN  IF found.tag = "raise" THEN found
             ELSE IF found.value = <<>> THEN Raise("IndexError")
             ELSE Return(found.value[1])
    ELSE IF args.geography.some THEN Return(args.geography.list)
    ELSE Raise("ValueError")

\* lines 88-93: the variable names of a download
ResolveVarNames(args) ==
    IF args.variable_names.some THEN Return(args.variable_names.list)
    ELSE IF args.variables.some
         THEN Return([k \in 1..Len(args.variables.list) |-> args.variables.list[k].name])
    ELSE Raise("ValueError")

\* Dataset.download up to its call of _download, which the _download steps run
DatasetDownload ==
    /\ pc = "call" /\ op = "Dataset.download"
    /\ \E status \in {HTTP_OK, HTTP_ERROR} :
          LET geo    == ResolveGeography(status, document, download_args)
              params == IF geo.tag = "raise" THEN geo
                        ELSE FilterToParams(geo.value, geo_filters)
              names  == IF params.tag = "raise" THEN params
                        ELSE ResolveVarNames(download_args)
          IN  /\ requests' = IF download_args.geo_level.some
                             THEN <<[params |-> <<>>, status |-> status]>>
                             ELSE <<>>
              /\ IF names.tag = "raise"
                 THEN /\ pc' = "done"
                      /\ result' = names
                      /\ UNCHANGED <<geography, var_names, var_batch_size, geo_complexity,
                                     geo_params, it>>
                 ELSE /\ pc' = "download"
                      /\ result' = NoResult
                      /\ geography' = geo.value
                      /\ var_names' = names.value
                      /\ var_batch_size' = DefaultBatchSize
                      /\ geo_complexity' = Complexity(geo.value)
                      /\ geo_params' = params.value
                      /\ it' = names.value
    /\ UNCHANGED <<i, batch_outputs, responses, api_rows, regex_filters, geo_filters,
                   searchVars, othersOfSearch>>

NextSearch ==
    \/ SearchGeography
    \/ SearchGroups
    \/ DatasetSearchVariables
    \/ GroupSearchVariables
    \/ DatasetDownload
    \/ DownloadBatchOk
    \/ DownloadBatchFail
    \/ DownloadReturn

\* whether record rec has a value of field f in which pattern p is found
Matches(rec, f, p) ==
    LET val == CASE f = "name"        -> rec.name
                 [] f = "geo_level"   -> rec.geo_level
                 [] f = "description" -> rec.description
                 [] f = "label"       -> rec.label
                 [] f = "concept"     -> rec.concept
                 [] OTHER             -> rec.group_name
    IN  \E k \in 0..(Len(val) - Len(p)) :
           \A j \in 1..Len(p) : Lower(val[k + j]) = Lower(p[j])

\* whether rec passes a list of (field, string pattern) filters
Passes(rec, rfs, conj) ==
    \/ rfs = <<>>
    \/ conj /\ \A k \in 1..Len(rfs) : Matches(rec, rfs[k][1], rfs[k][2].pattern)
    \/ ~conj /\ \E k \in 1..Len(rfs) : Matches(rec, rfs[k][1], rfs[k][2].pattern)

\* C7: a search called with a list of (filterable field, string pattern)
\* filters, its fetch succeeding, returns exactly the fetched records that pass
\* the patterns case-insensitively under the and/or mode, in document order;
\* and the geo_level lookup of Dataset.download, its fetch succeeding, does
\* not fail because its criterion is a string.
C7_SearchCoercesPatterns ==
    /\ (/\ pc = "done"
        /\ op \in SearchOps
        /\ regex_filters.some
        /\ \A k \in 1..Len(regex_filters.list) : regex_filters.list[k][2].kind = "str"
        /\ \A k \in 1..Len(requests) : requests[k].status = HTTP_OK)
       => /\ result.tag = "return"
          /\ result.value =
                SelectSeq(document,
                          LAMBDA rec : Passes(rec, regex_filters.list, and_or = "and"))
    /\ (/\ op = "Dataset.download"
        /\ pc # "call"
        /\ download_args.geo_level.some
        /\ requests # <<>>
        /\ requests[1].status = HTTP_OK)
       => result # Raise("TypeError")

\* C12: a search called with regex_filters left at its default None, its
\* fetch succeeding, raises nothing and returns every record of the fetched
\* document in document order, whether the document holds zero, one or
\* several records.
C12_AbsentFiltersReturnAll ==
    (/\ pc = "done"
     /\ op \in SearchOps
     /\ regex_filters = None
     /\ requests # <<>>
     /\ \A k \in 1..Len(requests) : requests[k].status = HTTP_OK)
    => result = Return(document)

(***************************************************************************)
(* search_datasets and Dataset.initialize                                  *)
(***************************************************************************)
Slash     == <<"/">>
S_acs     == <<"a", "c", "s">>
S_acs5    == <<"a", "c", "s", "5">>
S_profile == <<"p", "r", "o", "f", "i", "l", "e">>
S_sf1     == <<"s", "f", "1">>
S_API     == <<"A", "P", "I">>
S_HTML    == <<"H", "T", "M", "L">>

\* str.endswith(suffix)
StartsWith(prefix, str) ==
    /\ Len(prefix) <= Len(str)
    /\ SubSeq(str, 1, Len(prefix)) = prefix
EndsWith(suffix, str) ==
    /\ Len(suffix) <= Len(str)
    /\ SubSeq(str, Len(str) - Len(suffix) + 1, Len(str)) = suffix

\* access_url: the accessURL of the first distribution whose format is "API"
AccessUrl(distribution) ==
    LET api_dist_urls == SelectSeq(distribution, LAMBDA x : x.format = S_API)
    IN  IF api_dist_urls # <<>> THEN Some(api_dist_urls[1].accessURL) ELSE None

\* Dataset(title=..., path="/".join(info["c_dataset"]), access_url=...)
DatasetOf(info) ==
    [title |-> info.title,
     path |-> StrJoin(Slash, info.c_dataset),
     access_url |-> AccessUrl(info.distribution)]

\* p = path or ""
PathOrEmpty(pth) == IF pth.some THEN pth.list ELSE <<>>

\* the condition of lines 183-184
Keeps(dataset, p, include) ==
    \/ ~include /\ EndsWith(p, dataset.path)
    \/ include /\ Contains(p, dataset.path)

\* search_datasets(year, path, include_sub_datasets)
SearchDatasets(status, infos, pth, include) ==
    IF status # HTTP_OK THEN Raise("HTTPError")
    ELSE Return(SelectSeq([k \in 1..Len(infos) |-> DatasetOf(infos[k])],
                          LAMBDA d : Keeps(d, PathOrEmpty(pth), include)))

\* Dataset.initialize(year, path)
Initialize(status, infos, pth) ==
    LET datasets == SearchDatasets(status, infos, pth, FALSE)
    IN  IF datasets.tag = "raise" THEN datasets
        ELSE IF datasets.value = <<>> THEN Raise("ValueError")
        ELSE Return(datasets.value[1])

CatalogEntries ==
    { [title |-> <<"a">>, c_dataset |-> <<S_acs, S_acs5>>,
       distribution |-> <<[format |-> S_API, accessURL |-> <<"u", "1">>]>>],
      [title |-> <<"b">>, c_dataset |-> <<S_acs, S_acs5, S_profile>>,
       distribution |-> <<>>],
      [title |-> <<"c">>, c_dataset |-> <<S_sf1>>,
       distribution |-> <<[format |-> S_HTML, accessURL |-> <<"u", "2">>],
                          [format |-> S_API, accessURL |-> <<"u", "3">>]>>] }

Paths ==
    { None, Some(<<>>), Some(S_acs5), Some(S_acs), Some(S_profile),
      Some(S_acs5 \o Slash \o S_profile), Some(<<"A", "C", "S", "5">>), Some(<<"s", "/">>) }

InitDatasets ==
    /\ pc \in {"search_datasets", "initialize"}
    /\ result = NoResult
    /\ catalog \in SeqsUpTo(CatalogEntries, MaxCatalog)
    /\ path \in Paths
    /\ include_sub_datasets \in (IF pc = "initialize" THEN {FALSE} ELSE BOOLEAN)
    /\ requests = <<>>
    /\ it = <<>>
    /\ IdleBatcher
    /\ var_names = <<>>
    /\ var_batch_size = 0
    /\ geo_complexity = 0
    /\ geo_params = <<>>
    /\ i = 0
    /\ batch_outputs = <<>>
    /\ responses = <<>>
    /\ api_rows = 0
    /\ IdleFilters
    /\ IdleWrapper
    /\ IdleGeo
    /\ IdleSearch

CallSearchDatasets ==
    /\ pc = "search_datasets"
    /\ \E status \in {HTTP_OK, HTTP_ERROR} :
          /\ requests' = <<[params |-> <<>>, status |-> status]>>
          /\ result' = SearchDatasets(status, catalog, path, include_sub_datasets)
    /\ pc' = "done_search_datasets"
    /\ UNCHANGED <<datasetVars, othersOfDatasets>>

CallInitialize ==
    /\ pc = "initialize"
    /\ \E status \in {HTTP_OK, HTTP_ERROR} :
          /\ requests' = <<[params |-> <<>>, status |-> status]>>
          /\ result' = Initialize(status, catalog, path)
    /\ pc' = "done_initialize"
    /\ UNCHANGED <<datasetVars, othersOfDatasets>>

NextDatasets == CallSearchDatasets \/ CallInitialize

\* the joined path of a catalog entry, character by character
JoinedPath(info) == StrJoin(Slash, info.c_dataset)

\* p occurs in str at offset k
OccursAt(p, str, k) ==
    /\ k >= 0
    /\ k + Len(p) <= Len(str)
    /\ \A j \in 1..Len(p) : str[k + j] = p[j]

\* the entries the claim says are kept
Kept(info) ==
    LET p  == IF path.some THEN path.list ELSE <<>>
        jp == JoinedPath(info)
    IN  IF include_sub_datasets
        THEN \E k \in 0..Len(jp) : OccursAt(p, jp, k)
        ELSE OccursAt(p, jp, Len(jp) - Len(p))

S_acs_acs5 == <<"a", "c", "s", "/", "a", "c", "s", "5">>
S_acs_acs5_profile ==
    <<"a", "c", "s", "/", "a", "c", "s", "5", "/", "p", "r", "o", "f", "i", "l", "e">>

\* C10: when the catalog fetch succeeds, search_datasets returns, in catalog
\* order, the datasets of exactly the entries whose joined path contains path
\* (include_sub_datasets) or ends with it (otherwise), every entry for an omitted
\* or empty path; "acs5" keeps "acs/acs5" either way and "acs/acs5/profile" only
\* with include_sub_datasets; initialize returns the first dataset of the
\* ends-with result and raises ValueError (NotFound) when there is none.
C10_SearchDatasets ==
    LET kept == SelectSeq(catalog, Kept)
        hits == [k \in 1..Len(kept) |-> DatasetOf(kept[k])]
        ok   == requests # <<>> /\ requests[1].status = HTTP_OK
    IN  /\ (pc = "done_search_datasets" /\ ok) =>
              /\ result = Return(hits)
              /\ (~path.some \/ path.list = <<>>) => Len(result.value) = Len(catalog)
              /\ path = Some(S_acs5) =>
                    \A k \in 1..Len(catalog) :
                       /\ JoinedPath(catalog[k]) = S_acs_acs5 =>
                             \E j \in 1..Len(result.value) : result.value[j].path = S_acs_acs5
                       /\ JoinedPath(catalog[k]) = S_acs_acs5_profile =>
                             (include_sub_datasets <=>
                                 \E j \in 1..Len(result.value) :
                                     result.value[j].path = S_acs_acs5_profile)
        /\ (pc = "done_initialize" /\ ok) =>
              IF hits = <<>> THEN result = Raise("ValueError")
              ELSE result = Return(hits[1])

\* path "acs5" without sub datasets on a catalog holding acs/acs5/profile and
\* then acs/acs5: only acs/acs5 is returned
C10_Witness ==
    /\ pc = "done_search_datasets"
    /\ path = Some(S_acs5)
    /\ ~include_sub_datasets
    /\ Len(catalog) = 2
    /\ JoinedPath(catalog[1]) = S_acs_acs5_profile
    /\ JoinedPath(catalog[2]) = S_acs_acs5
    /\ result.tag = "return"
    /\ Len(result.value) = 1
    /\ result.value[1].path = S_acs_acs5

vars == <<pc, result, it, batcherVars, downloadVars, filterVars, wrapperVars, geoVars,
          searchVars, datasetVars>>

\* any one call of the library
Init ==
    \/ InitBatcher
    \/ InitDownload
    \/ InitFilters
    \/ InitWrapper
    \/ InitGeo
    \/ InitSearchSpec
    \/ InitDatasets

Next ==
    \/ NextBatcher
    \/ NextDownload
    \/ NextFilters
    \/ NextWrapper
    \/ NextGeo
    \/ NextSearch
    \/ NextDatasets

Spec == Init /\ [][Next]_vars

\* one specification per entry point
SpecBatcher  == InitBatcher /\ [][NextBatcher]_vars
SpecDownload == InitDownload /\ [][NextDownload]_vars
SpecFilters  == InitFilters /\ [][NextFilters]_vars
SpecWrapper  == InitWrapper /\ [][NextWrapper]_vars
SpecGeo      == InitGeo /\ [][NextGeo]_vars
SpecSearch   == InitSearchSpec /\ [][NextSearch]_vars
SpecDatasets == InitDatasets /\ [][NextDatasets]_vars
=============================================================================
